---- MODULE Spec2Model ----
(***************************************************************************)
(* Model of storage.go: a StorageClient that namespaces object keys by     *)
(* environment (and developer) and forwards each operation to an           *)
(* S3-compatible bucket.                                                   *)
(*                                                                         *)
(* Strings are sequences of one-character strings, so that filepath.Join   *)
(* (which cleans the joined path) and the bucket's prefix match are        *)
(* computed character by character, as the program does.                   *)
(***************************************************************************)
EXTENDS Integers, Sequences, FiniteSets

VARIABLES objects, invocation, calls, files, payload, err

vars == <<objects, invocation, calls, files, payload, err>>

(***************************************************************************)
(* Bounds of the model.                                                    *)
(***************************************************************************)
MaxObjects == 2
MaxBytes == 1
MaxTime == 2
MaxKeysObjects == 1

(***************************************************************************)
(* String constants of the program.                                        *)
(***************************************************************************)
Development == <<"d", "e", "v">>
Staging == <<"s", "t", "a", "g", "e">>
Production == <<"p", "r", "o", "d">>

Environment == {Development, Staging, Production}

CsvDir == <<"c", "s", "v", "/">>
ImagesDir == <<"i", "m", "a", "g", "e", "s", "/">>
ScrapedDir == <<"s", "c", "r", "a", "p", "e", "d", "/">>
DevPrefix == <<"d", "e", "v", "-">>
Separator == <<"/">>
EmptyString == <<>>

(***************************************************************************)
(* time.Time values are integers; ZeroTime is the zero value of time.Time, *)
(* which is what the LastModified of an uninitialised FileInfo holds.      *)
(***************************************************************************)
ZeroTime == 0
Times == ZeroTime..MaxTime

(***************************************************************************)
(* Errors.  NoErr is Go's nil error.                                       *)
(***************************************************************************)
NoErr == "nil"
ErrBackend == "backend: request failed"
ErrNoSuchKey == "backend: NoSuchKey"
ErrRead == "body: unexpected EOF"
ErrNoFilesFound == "no files found"

Payloads == UNION {[1..n -> {1}] : n \in 0..MaxBytes}

NilBytes == [nil |-> TRUE, bytes |-> <<>>]
Bytes(b) == [nil |-> FALSE, bytes |-> b]
NilFiles == [nil |-> TRUE, items |-> <<>>]
Files(fs) == [nil |-> FALSE, items |-> fs]

StorageClient(env, devUser) == [environment |-> env, devUser |-> devUser]

FileInfo(o) == [Key |-> o.Key, Size |-> Len(o.data), LastModified |-> o.mtime]

(***************************************************************************)
(* path/filepath (Unix): Clean and Join, as buildPath uses them.           *)
(***************************************************************************)
IsSep(path, r) == path[r] = "/"

\* The write position after a ".." element removes the last element of out.
RECURSIVE Backtrack(_, _, _)
Backtrack(out, w, dotdot) ==
  IF w > dotdot /\ out[w + 1] # "/" THEN Backtrack(out, w - 1, dotdot) ELSE w

\* The end (exclusive, 1-based) of the element that starts at r.
RECURSIVE ElementEnd(_, _)
ElementEnd(path, r) ==
  IF r <= Len(path) /\ path[r] # "/" THEN ElementEnd(path, r + 1) ELSE r

RECURSIVE CleanLoop(_, _, _, _, _)
CleanLoop(path, r, out, dotdot, rooted) ==
  LET n == Len(path) IN
  IF r > n THEN out
  ELSE IF IsSep(path, r) THEN CleanLoop(path, r + 1, out, dotdot, rooted)
  ELSE IF path[r] = "." /\ (r = n \/ IsSep(path, r + 1))
    THEN CleanLoop(path, r + 1, out, dotdot, rooted)
  ELSE IF path[r] = "." /\ path[r + 1] = "." /\ (r + 1 = n \/ IsSep(path, r + 2))
    THEN IF Len(out) > dotdot
           THEN CleanLoop(path, r + 2,
                          SubSeq(out, 1, Backtrack(out, Len(out) - 1, dotdot)),
                          dotdot, rooted)
         ELSE IF ~rooted
           THEN LET o == (IF Len(out) > 0 THEN out \o Separator ELSE out)
                         \o <<".", ".">>
                IN CleanLoop(path, r + 2, o, Len(o), rooted)
         ELSE CleanLoop(path, r + 2, out, dotdot, rooted)
  ELSE LET o == IF (rooted /\ Len(out) # 1) \/ (~rooted /\ Len(out) # 0)
                  THEN out \o Separator ELSE out
           e == ElementEnd(path, r)
       IN CleanLoop(path, e, o \o SubSeq(path, r, e - 1), dotdot, rooted)

Clean(path) ==
  IF path = EmptyString THEN <<".">>
  ELSE LET rooted == IsSep(path, 1)
           out == IF rooted THEN CleanLoop(path, 2, Separator, 1, TRUE)
                  ELSE CleanLoop(path, 1, EmptyString, 0, FALSE)
       IN IF out = EmptyString THEN <<".">> ELSE out

RECURSIVE JoinWith(_, _)
JoinWith(elem, sep) ==
  IF elem = <<>> THEN EmptyString
  ELSE IF Len(elem) = 1 THEN elem[1]
  ELSE elem[1] \o sep \o JoinWith(Tail(elem), sep)

RECURSIVE Join(_)
Join(elem) ==
  IF elem = <<>> THEN EmptyString
  ELSE IF elem[1] # EmptyString THEN Clean(JoinWith(elem, Separator))
  ELSE Join(Tail(elem))

buildPath(s, path) ==
  IF s.environment = Development
    THEN IF s.devUser # EmptyString
           THEN Join(<<s.environment, DevPrefix \o s.devUser, path>>)
           ELSE Join(<<s.environment, path>>)
    ELSE Join(<<s.environment, path>>)


(***************************************************************************)
(* The bucket.  objects is the set of stored objects, at most one per Key. *)
(* src is a history field: the upload that last wrote the object.          *)
(***************************************************************************)
Min(a, b) == IF a < b THEN a ELSE b

HasPrefix(str, prefix) ==
  Len(prefix) <= Len(str) /\ SubSeq(str, 1, Len(prefix)) = prefix

Exists(key) == \E o \in objects : o.Key = key
ObjectAt(key) == CHOOSE o \in objects : o.Key = key

Call(api, key, e) == [api |-> api, key |-> key, err |-> e]

\* PutObject: a failed request leaves the bucket alone; a successful one
\* replaces the object under key.  t is the LastModified the backend assigns.
PutObject(key, data, t, e, src) ==
  IF e = NoErr
    THEN objects' = {o \in objects : o.Key # key}
                    \cup {[Key |-> key, data |-> data, mtime |-> t, src |-> src]}
    ELSE UNCHANGED objects

\* GetObject: the request fails with e, or the key is missing, or the body
\* of the object is returned.
GetObject(key, e) ==
  IF e # NoErr THEN [err |-> e, Body |-> <<>>]
  ELSE IF ~Exists(key) THEN [err |-> ErrNoSuchKey, Body |-> <<>>]
  ELSE [err |-> NoErr, Body |-> ObjectAt(key).data]

\* io.ReadAll: the whole body, or the n bytes read before the read failed
\* together with the read error r.
ReadAll(body, r, n) ==
  IF r = NoErr THEN [bytes |-> body, err |-> NoErr]
  ELSE [bytes |-> SubSeq(body, 1, Min(n, Len(body))), err |-> r]

Matching(prefix) == {o \in objects : HasPrefix(o.Key, prefix)}

\* The orders in which the backend may list the objects under prefix.
Listings(prefix) ==
  LET M == Matching(prefix)
  IN {f \in [1..Cardinality(M) -> M] : \A i, j \in DOMAIN f : i # j => f[i] # f[j]}

ListObjectsV2(prefix, e, order) ==
  IF e # NoErr THEN [err |-> e, Contents |-> <<>>]
  ELSE [err |-> NoErr, Contents |-> order]

(***************************************************************************)
(* The operations of StorageClient.  e, e2 are the outcomes of the backend *)
(* requests, t the LastModified the backend assigns, r and n the outcome   *)
(* of reading a response body.                                             *)
(***************************************************************************)
UploadCSV(s, path, data, t, e) ==
  LET key == buildPath(s, CsvDir \o path)
  IN /\ PutObject(key, data, t, e, [fn |-> "UploadCSV", s |-> s, path |-> path])
     /\ calls' = <<Call("PutObject", key, e)>>
     /\ err' = e
     /\ payload' = NilBytes
     /\ files' = NilFiles

\* DownloadCSV building its key under the images/ category.
DownloadCSV_ImagesKey(s, path, e, r, n) ==
  LET key == buildPath(s, ImagesDir \o path)
      result == GetObject(key, e)
      body == ReadAll(result.Body, r, n)
  IN /\ calls' = <<Call("GetObject", key, result.err)>>
     /\ IF result.err # NoErr
          THEN payload' = NilBytes /\ err' = result.err
          ELSE payload' = Bytes(body.bytes) /\ err' = body.err
     /\ files' = NilFiles
     /\ UNCHANGED objects

DownloadCSV(s, path, e, r, n) ==
  LET key == buildPath(s, CsvDir \o path)
      result == GetObject(key, e)
      body == ReadAll(result.Body, r, n)
  IN /\ calls' = <<Call("GetObject", key, result.err)>>
     /\ IF result.err # NoErr
          THEN payload' = NilBytes /\ err' = result.err
          ELSE payload' = Bytes(body.bytes) /\ err' = body.err
     /\ files' = NilFiles
     /\ UNCHANGED objects

\* The (key, files, err) ListCSVFiles computes.
ListCSVFilesResult(s, prefix, e, order) ==
  LET key == buildPath(s, CsvDir \o prefix)
      result == ListObjectsV2(key, e, order)
  IN IF result.err # NoErr
       THEN [key |-> key, err |-> result.err, files |-> NilFiles]
       ELSE [key |-> key, err |-> NoErr,
             files |-> Files([i \in DOMAIN result.Contents |->
                                FileInfo(result.Contents[i])])]

ListCSVFiles(s, prefix, e) ==
  \E order \in Listings(buildPath(s, CsvDir \o prefix)) :
    LET listed == ListCSVFilesResult(s, prefix, e, order)
    IN /\ calls' = <<Call("ListObjectsV2", listed.key, e)>>
       /\ files' = listed.files
       /\ err' = listed.err
       /\ payload' = NilBytes
       /\ UNCHANGED objects

UploadScrapedData(s, store, filename, data, t, e) ==
  UploadCSV(s, ScrapedDir \o store \o Separator \o filename, data, t, e)

\* var latest FileInfo
ZeroFileInfo == [Key |-> EmptyString, Size |-> 0, LastModified |-> ZeroTime]

After(t, u) == t > u

RECURSIVE ScanLatest(_, _, _)
ScanLatest(fs, i, latest) ==
  IF i > Len(fs) THEN latest
  ELSE IF After(fs[i].LastModified, latest.LastModified)
    THEN ScanLatest(fs, i + 1, fs[i])
    ELSE ScanLatest(fs, i + 1, latest)

\* GetLatestScrapedFile without the check for an empty listing.
GetLatestScrapedFile_NoEmptyCheck(s, store, e, e2, r, n) ==
  LET prefix == ScrapedDir \o store \o Separator
  IN \E order \in Listings(buildPath(s, CsvDir \o prefix)) :
       LET listed == ListCSVFilesResult(s, prefix, e, order)
           list == Call("ListObjectsV2", listed.key, e)
           latest == ScanLatest(listed.files.items, 1, ZeroFileInfo)
           result == GetObject(latest.Key, e2)
           body == ReadAll(result.Body, r, n)
       IN /\ UNCHANGED objects
          /\ files' = listed.files
          /\ IF listed.err # NoErr
               THEN calls' = <<list>> /\ payload' = NilBytes /\ err' = listed.err
             ELSE /\ calls' = <<list, Call("GetObject", latest.Key, result.err)>>
                  /\ IF result.err # NoErr
                       THEN payload' = NilBytes /\ err' = result.err
                       ELSE payload' = Bytes(body.bytes) /\ err' = body.err

\* GetLatestScrapedFile treating a failed listing as an empty one.
GetLatestScrapedFile_IgnoresListError(s, store, e, e2, r, n) ==
  LET prefix == ScrapedDir \o store \o Separator
  IN \E order \in Listings(buildPath(s, CsvDir \o prefix)) :
       LET listed == ListCSVFilesResult(s, prefix, e, order)
           list == Call("ListObjectsV2", listed.key, e)
           latest == ScanLatest(listed.files.items, 1, ZeroFileInfo)
           result == GetObject(latest.Key, e2)
           body == ReadAll(result.Body, r, n)
       IN /\ UNCHANGED objects
          /\ files' = listed.files
          /\ IF listed.err # NoErr
               THEN calls' = <<list>> /\ payload' = NilBytes /\ err' = ErrNoFilesFound
             ELSE IF Len(listed.files.items) = 0
               THEN calls' = <<list>> /\ payload' = NilBytes /\ err' = ErrNoFilesFound
             ELSE /\ calls' = <<list, Call("GetObject", latest.Key, result.err)>>
                  /\ IF result.err # NoErr
                       THEN payload' = NilBytes /\ err' = result.err
                       ELSE payload' = Bytes(body.bytes) /\ err' = body.err

GetLatestScrapedFile(s, store, e, e2, r, n) ==
  LET prefix == ScrapedDir \o store \o Separator
  IN \E order \in Listings(buildPath(s, CsvDir \o prefix)) :
       LET listed == ListCSVFilesResult(s, prefix, e, order)
           list == Call("ListObjectsV2", listed.key, e)
           latest == ScanLatest(listed.files.items, 1, ZeroFileInfo)
           result == GetObject(latest.Key, e2)
           body == ReadAll(result.Body, r, n)
       IN /\ UNCHANGED objects
          /\ files' = listed.files
          /\ IF listed.err # NoErr
               THEN calls' = <<list>> /\ payload' = NilBytes /\ err' = listed.err
             ELSE IF Len(listed.files.items) = 0
               THEN calls' = <<list>> /\ payload' = NilBytes /\ err' = ErrNoFilesFound
             ELSE /\ calls' = <<list, Call("GetObject", latest.Key, result.err)>>
                  /\ IF result.err # NoErr
                       THEN payload' = NilBytes /\ err' = result.err
                       ELSE payload' = Bytes(body.bytes) /\ err' = body.err

UploadImage(s, path, data, t, e) ==
  LET key == buildPath(s, ImagesDir \o path)
  IN /\ PutObject(key, data, t, e, [fn |-> "UploadImage", s |-> s, path |-> path])
     /\ calls' = <<Call("PutObject", key, e)>>
     /\ err' = e
     /\ payload' = NilBytes
     /\ files' = NilFiles

TestConnection(s, e) ==
  /\ calls' = <<Call("HeadBucket", EmptyString, e)>>
  /\ err' = e
  /\ payload' = NilBytes
  /\ files' = NilFiles
  /\ UNCHANGED objects

(***************************************************************************)
(* The callers.  invocation records the operation called last and its      *)
(* arguments.                                                              *)
(***************************************************************************)
Invocation(op, s, path, filename, data) ==
  [op |-> op, s |-> s, path |-> path, filename |-> filename, data |-> data]

CallOutcomes == {NoErr, ErrBackend}
ReadOutcomes == {NoErr, ErrRead}

\* The outcomes of a GetObject request and of reading its body.
GetOutcomes ==
  {o \in [e : CallOutcomes, r : ReadOutcomes, n : 0..MaxBytes] :
     /\ o.e # NoErr => o.r = NoErr
     /\ o.r = NoErr => o.n = 0}

Init ==
  /\ objects = {}
  /\ invocation = Invocation("none", StorageClient(Production, EmptyString),
                             EmptyString, EmptyString, <<>>)
  /\ calls = <<>>
  /\ files = NilFiles
  /\ payload = NilBytes
  /\ err = NoErr

Step(U) ==
  \/ \E s \in U.clients, path \in U.paths, data \in U.payloads, t \in U.times,
        e \in CallOutcomes :
       /\ UploadCSV(s, path, data, t, e)
       /\ Cardinality(objects') <= U.cap
       /\ invocation' = Invocation("UploadCSV", s, path, EmptyString, data)
  \/ \E s \in U.clients, path \in U.paths, o \in GetOutcomes :
       /\ DownloadCSV(s, path, o.e, o.r, o.n)
       /\ invocation' = Invocation("DownloadCSV", s, path, EmptyString, <<>>)
  \/ \E s \in U.clients, prefix \in U.paths, e \in CallOutcomes :
       /\ ListCSVFiles(s, prefix, e)
       /\ invocation' = Invocation("ListCSVFiles", s, prefix, EmptyString, <<>>)
  \/ \E s \in U.clients, store \in U.stores, filename \in U.filenames,
        data \in U.payloads, t \in U.times, e \in CallOutcomes :
       /\ UploadScrapedData(s, store, filename, data, t, e)
       /\ Cardinality(objects') <= U.cap
       /\ invocation' = Invocation("UploadScrapedData", s, store, filename, data)
  \/ \E s \in U.clients, store \in U.stores, e \in CallOutcomes, o \in GetOutcomes :
       /\ GetLatestScrapedFile(s, store, e, o.e, o.r, o.n)
       /\ invocation' = Invocation("GetLatestScrapedFile", s, store, EmptyString, <<>>)
  \/ \E s \in U.clients, path \in U.paths, data \in U.payloads, t \in U.times,
        e \in CallOutcomes :
       /\ UploadImage(s, path, data, t, e)
       /\ Cardinality(objects') <= U.cap
       /\ invocation' = Invocation("UploadImage", s, path, EmptyString, data)
  \/ \E s \in U.clients, e \in CallOutcomes :
       /\ TestConnection(s, e)
       /\ invocation' = Invocation("TestConnection", s, EmptyString, EmptyString, <<>>)

(***************************************************************************)
(* Spec: one developer's client on a bucket.  The two paths name the file  *)
(* f of store a, once with a trailing separator, so that UploadCSV,        *)
(* UploadScrapedData and DownloadCSV meet on one key.                      *)
(***************************************************************************)
Universe ==
  [clients |-> {StorageClient(Development, <<"a">>)},
   paths |-> {ScrapedDir \o <<"a", "/", "f">>, ScrapedDir \o <<"a", "/", "f", "/">>},
   stores |-> {<<"a">>},
   filenames |-> {<<"f">>},
   payloads |-> Payloads,
   times |-> {ZeroTime, MaxTime},
   cap |-> MaxObjects]

Next == Step(Universe)

Spec == Init /\ [][Next]_vars

(***************************************************************************)
(* SpecScraped: one production client and two stores, the identifier of    *)
(* one a proper prefix of the other's.                                     *)
(***************************************************************************)
ScrapedUniverse ==
  [clients |-> {StorageClient(Production, EmptyString)},
   paths |-> {ScrapedDir},
   stores |-> {<<"a">>, <<"a", "a">>},
   filenames |-> {<<"f">>},
   payloads |-> Payloads,
   times |-> Times,
   cap |-> MaxObjects]

NextScraped == Step(ScrapedUniverse)

SpecScraped == Init /\ [][NextScraped]_vars

(***************************************************************************)
(* SpecKeys: clients of every environment, with and without a developer,   *)
(* and paths that are empty, end in a separator or climb with "..".        *)
(***************************************************************************)
KeysUniverse ==
  [clients |-> {StorageClient(Production, EmptyString),
                StorageClient(Staging, <<"a">>),
                StorageClient(Development, EmptyString),
                StorageClient(Development, <<"a">>),
                StorageClient(Development, <<"a", "a">>)},
   paths |-> {<<"a", "/">>, <<".", ".">>, <<".", ".", "/", ".", ".">>},
   stores |-> {<<"a">>},
   filenames |-> {<<"f">>},
   payloads |-> {<<1>>},
   times |-> {MaxTime},
   cap |-> MaxKeysObjects]

NextKeys == Step(KeysUniverse)

SpecKeys == Init /\ [][NextKeys]_vars


(***************************************************************************)
(* Definitions used to state the properties.                               *)
(* The key layout the specification documents:                             *)
(*   <environment>/[<dev-segment>/]<category>/<logical-path>               *)
(***************************************************************************)
Namespace(s) ==
  IF s.environment = Development /\ s.devUser # EmptyString
    THEN s.environment \o Separator \o DevPrefix \o s.devUser \o Separator
    ELSE s.environment \o Separator

KeyLayout(s, category, path) == Namespace(s) \o category \o path

\* The elements of str between separators, from position r on.
RECURSIVE Elements(_, _)
Elements(str, r) ==
  IF r > Len(str) + 1 THEN <<>>
  ELSE LET e == ElementEnd(str, r)
       IN <<SubSeq(str, r, e - 1)>> \o Elements(str, e + 1)

Segment(key, i) ==
  LET es == Elements(key, 1) IN IF i <= Len(es) THEN es[i] ELSE EmptyString

\* Two clients whose keys the namespacing is to keep apart.
Isolated(s1, s2) ==
  \/ s1.environment # s2.environment
  \/ /\ s1.environment = Development
     /\ s1.devUser # EmptyString
     /\ s2.devUser # EmptyString
     /\ s1.devUser # s2.devUser

\* The keys of the objects whose content or metadata the last operation
\* returned to its caller.
ReturnedKeys ==
  IF invocation.op = "DownloadCSV" /\ ~payload.nil THEN {calls[1].key}
  ELSE IF invocation.op = "GetLatestScrapedFile" /\ ~payload.nil THEN {calls[2].key}
  ELSE IF invocation.op = "ListCSVFiles" /\ ~files.nil
    THEN {files.items[i].Key : i \in DOMAIN files.items}
  ELSE {}

\* The objects of store under the client's csv/scraped/<store>/ prefix.
StoreFiles(s, store) ==
  Matching(KeyLayout(s, CsvDir, ScrapedDir \o store \o Separator))

\* C1: every object key or list prefix an operation sends to the backend
\* begins with the environment segment, and for a development client with a
\* developer identifier its second segment is the developer's segment.
C1_KeysInNamespace ==
  \A i \in DOMAIN calls :
    calls[i].api # "HeadBucket" =>
      /\ Segment(calls[i].key, 1) = invocation.s.environment
      /\ (invocation.s.environment = Development
          /\ invocation.s.devUser # EmptyString)
           => Segment(calls[i].key, 2) = DevPrefix \o invocation.s.devUser

\* C2: the key built for category csv and logical path P is the environment,
\* then the developer's segment (development with a developer only), then
\* csv/P.
C2_CsvKeyShape ==
  invocation.op \in {"UploadCSV", "DownloadCSV", "ListCSVFiles"} =>
    calls[1].key = KeyLayout(invocation.s, CsvDir, invocation.path)

\* C3: a download or listing never returns an object that a client of
\* another environment, or another developer's client, uploaded.
C3_NoCollision ==
  \A k \in ReturnedKeys : ~Isolated(invocation.s, ObjectAt(k).src.s)

\* C4: DownloadCSV with path P addresses the key of the object that the same
\* client's UploadCSV with P wrote last, and when it succeeds it returns
\* exactly the bytes uploaded.
C4_RoundTrip ==
  invocation.op = "DownloadCSV" =>
    \A o \in objects :
      o.src = [fn |-> "UploadCSV", s |-> invocation.s, path |-> invocation.path]
        => /\ calls[1].key = o.Key
           /\ err = NoErr => payload = Bytes(o.data)

C4_Witness ==
  /\ invocation.op = "DownloadCSV"
  /\ err = NoErr
  /\ payload.bytes # <<>>
  /\ \E o \in objects :
       o.src = [fn |-> "UploadCSV", s |-> invocation.s, path |-> invocation.path]

\* C5: when the files of a store have pairwise distinct last-modified
\* timestamps, a successful GetLatestScrapedFile returns the content of the
\* store's file with the maximum timestamp.
C5_LatestByTimestamp ==
  LET F == StoreFiles(invocation.s, invocation.path)
  IN (/\ invocation.op = "GetLatestScrapedFile"
      /\ err = NoErr
      /\ F # {}
      /\ \A o, q \in F : o # q => o.mtime # q.mtime)
       => \E o \in F : /\ \A q \in F : q.mtime <= o.mtime
                       /\ payload = Bytes(o.data)

\* C6: GetLatestScrapedFile for store S only returns the content of an
\* object whose key lies under the client's csv/scraped/S/ prefix.
C6_OnlyOwnStore ==
  (invocation.op = "GetLatestScrapedFile" /\ ~payload.nil) =>
    HasPrefix(calls[2].key,
              KeyLayout(invocation.s, CsvDir,
                        ScrapedDir \o invocation.path \o Separator))

\* C7 as claimed: every operation performs exactly one round trip to the
\* backend per invocation.
C7_OneRoundTrip ==
  invocation.op # "none" => Len(calls) = 1

\* C7 as amended: every operation other than GetLatestScrapedFile performs
\* exactly one round trip; GetLatestScrapedFile performs one when its listing
\* fails or is empty and two, the listing and one download, otherwise.
C7_RoundTrips ==
  invocation.op # "none" =>
    IF invocation.op = "GetLatestScrapedFile"
         /\ calls[1].err = NoErr /\ Len(files.items) > 0
      THEN Len(calls) = 2
      ELSE Len(calls) = 1

C7_Witness ==
  /\ invocation.op = "GetLatestScrapedFile"
  /\ Len(calls) = 2
  /\ err = NoErr

\* C8: when a backend call of an operation fails with error e, it is the
\* last call of the operation, and the operation returns e and no payload.
C8_ErrorsPropagate ==
  \A i \in DOMAIN calls :
    calls[i].err # NoErr =>
      /\ i = Len(calls)
      /\ err = calls[i].err
      /\ payload = NilBytes
      /\ invocation.op = "ListCSVFiles" => files = NilFiles

C8_Witness ==
  /\ invocation.op = "GetLatestScrapedFile"
  /\ Len(calls) = 2
  /\ calls[2].err = ErrBackend
  /\ err = ErrBackend

\* C9: GetLatestScrapedFile on a store with no files fails with "no files
\* found" and issues no download; ListCSVFiles on a prefix that matches no
\* object returns an empty sequence and no error.
C9_EmptyStore ==
  /\ (/\ invocation.op = "GetLatestScrapedFile"
      /\ calls[1].err = NoErr
      /\ StoreFiles(invocation.s, invocation.path) = {})
       => err = ErrNoFilesFound /\ Len(calls) = 1
  /\ (/\ invocation.op = "ListCSVFiles"
      /\ calls[1].err = NoErr
      /\ Matching(calls[1].key) = {})
       => files = Files(<<>>) /\ err = NoErr

\* C10: when its listing is not empty, the key GetLatestScrapedFile requests
\* is the key of one of the listed files.
C10_RequestsListedKey ==
  (invocation.op = "GetLatestScrapedFile" /\ Len(calls) = 2) =>
    \E i \in DOMAIN files.items : files.items[i].Key = calls[2].key

====
